---- MODULE Spec2Model ----
(***************************************************************************)
(* Pull-through cache handlers of src/src/api.rs: get_manifest / manifest  *)
(* (the cache-or-fetch orchestrator) and blob (the fan-out of one upstream *)
(* byte stream to the client response and the cache writer through an      *)
(* async_broadcast channel of capacity 16).                                *)
(*                                                                         *)
(* Strings are sequences of one-character strings, so that format!,        *)
(* strip_prefix and starts_with are computed, not assumed.                 *)
(***************************************************************************)
EXTENDS Integers, Sequences, FiniteSets, TLC

(***************************************************************************)
(* Bounds of the model.                                                    *)
(***************************************************************************)
\* longest upstream blob stream (in items) of the specification Spec
MaxChunks == 3
\* how many more items than the channel holds the long streams of SpecFanOut carry
ExtraChunks == 1
\* how many of the items an upstream stream yields may be read errors
PairChunks == 1
MaxErrs == 1
\* InvalidationTime.manifest and InvalidationTime.blob, in ticks of cache age
ManifestTTL == 1
BlobTTL == 2

\* async_broadcast::broadcast(16)
Cap == 16
\* i64::MAX and u64::MAX at the width of the model's integers: sizes are 31-bit
\* unsigned and lengths 30-bit, so that a declared size can exceed every length
I64_MAX == 1073741823
U64_MAX == 2147483647

Reqs == {1, 2}

(***************************************************************************)
(* Strings.                                                                *)
(***************************************************************************)
Slash == <<"/">>
ManifestsSeg == <<"m", "a", "n", "i", "f", "e", "s", "t", "s">>
BlobsSeg == <<"b", "l", "o", "b", "s">>
Sha256Prefix == <<"s", "h", "a", "2", "5", "6", ":">>
RepositoryColon == <<"r", "e", "p", "o", "s", "i", "t", "o", "r", "y", ":">>
ColonPull == <<":", "p", "u", "l", "l">>

\* str::starts_with
starts_with(s, p) == Len(s) >= Len(p) /\ SubSeq(s, 1, Len(p)) = p

\* str::strip_prefix(p).unwrap(); the unwrap never fails on a formatted path
strip_prefix(s, p) == SubSeq(s, Len(p) + 1, Len(s))

(***************************************************************************)
(* Request fields.  An ImageReference is a tag or a digest; its Display    *)
(* form is the tag or the digest text.                                     *)
(***************************************************************************)
Images == {<<"a">>, <<"l", "/", "b">>}
References == {[kind |-> "Tag", text |-> <<"v">>],
               [kind |-> "Digest", text |-> Sha256Prefix \o <<"1">>]}
Digests == {Sha256Prefix \o <<"1">>,
            <<"m", "d", "5", ":", "1">>,
            <<"s", "h", "a", "2", "5", "6">>,
            <<>>}

to_string(reference) == reference.text

ManifestRequests == [kind : {"manifest"}, image : Images, reference : References]
BlobRequests == [kind : {"blob"}, image : Images, digest : Digests]
NoRequest == [kind |-> "none"]

\* a manifest path keyed by the image alone
ManifestRequest_path_by_image(rq) ==
    Slash \o rq.image \o Slash \o ManifestsSeg

\* ManifestRequest::path
ManifestRequest_path(rq) ==
    Slash \o rq.image \o Slash \o ManifestsSeg \o Slash \o to_string(rq.reference)

\* BlobRequest::path
BlobRequest_path(rq) ==
    Slash \o rq.image \o Slash \o BlobsSeg \o Slash \o rq.digest

\* the storage key of a request: its path without the leading "/"
storage_path(rq) ==
    IF rq.kind = "manifest"
    THEN strip_prefix(ManifestRequest_path(rq), Slash)
    ELSE strip_prefix(BlobRequest_path(rq), Slash)

\* format!("repository:{}:pull", image)
pull_scope(image) == RepositoryColon \o image \o ColonPull

ManifestPaths == {storage_path(rq) : rq \in ManifestRequests}
BlobPaths == {storage_path(rq) : rq \in BlobRequests}
AllPaths == ManifestPaths \cup BlobPaths

(***************************************************************************)
(* Manifest records and their cached JSON form.                            *)
(***************************************************************************)
None == <<>>
Some(x) == <<x>>

UpstreamManifests ==
    {[manifest |-> <<1, 2>>, media_type |-> "oci", digest |-> Some("sha256:abc")],
     [manifest |-> <<3>>, media_type |-> "docker", digest |-> None]}

\* a serializer that leaves the optional digest out of the record
to_vec_skipping_digest(m) ==
    <<"{", <<"manifest", m.manifest>>, <<"media_type", m.media_type>>,
      <<"digest", None>>, "}">>

\* serde_json::to_vec(&manifest): an object of the three fields, in order
to_vec(m) ==
    <<"{", <<"manifest", m.manifest>>, <<"media_type", m.media_type>>,
      <<"digest", m.digest>>, "}">>

CorruptBody == <<"{", <<"manifest", <<1, 2>>>>>>

WellFormed(body) ==
    /\ Len(body) = 5
    /\ body[1] = "{"
    /\ body[5] = "}"
    /\ body[2][1] = "manifest"
    /\ body[3][1] = "media_type"
    /\ body[4][1] = "digest"

\* serde_json::from_slice::<Manifest>(body): Ok(manifest) or Err
from_slice(body) ==
    IF WellFormed(body)
    THEN [ok |-> TRUE,
          manifest |-> [manifest |-> body[2][2], media_type |-> body[3][2],
                        digest |-> body[4][2]]]
    ELSE [ok |-> FALSE]

\* n.try_into().unwrap_or(i64::MAX)
try_into_i64(n) == IF n <= I64_MAX THEN n ELSE I64_MAX

\* Option::<u64>::unwrap_or_default()
unwrap_or_default(opt) == IF opt = None THEN 0 ELSE opt[1]

(***************************************************************************)
(* The Repository: storage path -> entry or Absent.  An entry carries the  *)
(* stored bytes and its age; read(path, max_age) is a hit when the entry   *)
(* exists and is not older than max_age.                                   *)
(***************************************************************************)
Absent == [present |-> FALSE]
Entry(body, age) == [present |-> TRUE, body |-> body, age |-> age]

MaxAge == BlobTTL + 1

Fresh(entry, max_age) == entry.present /\ entry.age <= max_age

\* Repository::read: the stored bytes as a stream, or Err
Repository_read(repo, path, max_age) ==
    IF Fresh(repo[path], max_age)
    THEN [ok |-> TRUE, body |-> repo[path].body]
    ELSE [ok |-> FALSE]

\* Repository::write returning Ok: the entry at path now holds body, age 0
Repository_write(repo, path, body) ==
    [repo EXCEPT ![path] = Entry(body, 0)]

(***************************************************************************)
(* State.                                                                  *)
(***************************************************************************)
VARIABLES
    world,      \* what the environment may do: requests, declared sizes, stream
                \* length, mid-stream read errors
    cache,      \* the Repository's content
    req,        \* req[r]: the request r carries
    pc,         \* pc[r]: where handler r is suspended
    result,     \* result[r]: what handler r returned
    calls,      \* calls[r]: the collaborator calls request r has made, in order
    io,         \* io[r]: the entry at r's path when r read it, the outcomes of r's
                \* read, authenticate and write, the manifest r fetched
    chan,       \* chan[r]: the broadcast channel of r's fan-out
    stream,     \* stream[r]: the upstream blob response: the size it declares and
                \* its body stream (items yielded, ended)
    producer,   \* producer[r]: the spawned task that pumps stream into chan
    rx,         \* rx[r]: the two Receiver handles (client, writer)
    obs,        \* obs[r]: the items each consumer has taken from its handle
    wtask,      \* wtask[r]: the spawned task that runs repo.write
    lateReads   \* lateReads[r]: upstream reads completed after the channel closed

vars == <<world, cache, req, pc, result, calls, io, chan, stream, producer, rx,
          obs, wtask, lateReads>>

fanVars == <<chan, stream, producer, rx, obs, wtask, lateReads>>

Consumers == {"client", "writer"}

NoManifest == [manifest |-> <<>>, media_type |-> "", digest |-> None]
NoResult == [status |-> "none", error |-> "", manifest |-> NoManifest,
             body |-> <<>>, from |-> ""]
Err(e) == [NoResult EXCEPT !.status = "Err", !.error = e]
OkManifest(m) == [NoResult EXCEPT !.status = "Ok", !.manifest = m]
\* HttpResponse::Ok().streaming(s): s is the cached stream or the Receiver rx
OkStreaming(src, body) ==
    [NoResult EXCEPT !.status = "Ok", !.from = src, !.body = body]

NoIo == [seen |-> Absent, read |-> "none", auth |-> "none", write |-> "none",
         fetched |-> NoManifest]
NoChan == [queue |-> <<>>, head_pos |-> 0, receiver_count |-> 0,
           sender_count |-> 0, is_closed |-> FALSE]
NoStream == [items |-> <<>>, ended |-> FALSE, size |-> None]
NoProducer == [pc |-> "none", chunk |-> <<>>]
NoHandle == [state |-> "none", pos |-> 0]
NoWtask == [pc |-> "none", len |-> 0]

\* declared sizes an upstream blob response may carry
Sizes == {None, Some(2), Some(U64_MAX)}

InitCommon ==
    /\ req = [r \in Reqs |-> NoRequest]
    /\ pc = [r \in Reqs |-> "idle"]
    /\ result = [r \in Reqs |-> NoResult]
    /\ calls = [r \in Reqs |-> <<>>]
    /\ io = [r \in Reqs |-> NoIo]
    /\ chan = [r \in Reqs |-> NoChan]
    /\ stream = [r \in Reqs |-> NoStream]
    /\ producer = [r \in Reqs |-> NoProducer]
    /\ rx = [r \in Reqs |-> [c \in Consumers |-> NoHandle]]
    /\ obs = [r \in Reqs |-> [c \in Consumers |-> <<>>]]
    /\ wtask = [r \in Reqs |-> NoWtask]
    /\ lateReads = [r \in Reqs |-> 0]

EmptyCache == [p \in AllPaths |-> Absent]

\* bodies a Repository may hold before the first request
SeedBodies(p) ==
    IF p \in ManifestPaths
    THEN {to_vec(m) : m \in UpstreamManifests} \cup {CorruptBody}
    ELSE {<<7, 8>>}

\* the requests of image "a" under whose path the Repository may already hold an
\* entry: a tagged manifest, a blob, and a blob whose digest is not a sha256 one
SeedRequests ==
    {[kind |-> "manifest", image |-> <<"a">>,
      reference |-> [kind |-> "Tag", text |-> <<"v">>]],
     [kind |-> "blob", image |-> <<"a">>, digest |-> Sha256Prefix \o <<"1">>],
     [kind |-> "blob", image |-> <<"a">>, digest |-> <<"m", "d", "5", ":", "1">>]}

SeedPaths == {storage_path(rq) : rq \in SeedRequests}

InitCaches ==
    {EmptyCache} \cup
    UNION {{[EmptyCache EXCEPT ![p] = Entry(b, a)] :
                b \in SeedBodies(p), a \in 0 .. MaxAge} : p \in SeedPaths}

Init ==
    /\ InitCommon
    /\ world = [requests |-> ManifestRequests \cup BlobRequests,
                sizes |-> {None}, limit |-> MaxChunks,
                errs |-> MaxErrs]
    /\ cache \in InitCaches

Log(r, call) == [calls EXCEPT ![r] = Append(@, call)]

(***************************************************************************)
(* A request arrives: the path parameters are deserialized into a          *)
(* ManifestRequest or a BlobRequest and the handler is entered.            *)
(***************************************************************************)
Arrive(r) ==
    /\ pc[r] = "idle"
    /\ \E rq \in world.requests :
          /\ req' = [req EXCEPT ![r] = rq]
          /\ pc' = [pc EXCEPT ![r] = IF rq.kind = "blob" THEN "check" ELSE "read"]
    /\ UNCHANGED <<world, cache, result, calls, io, fanVars>>

\* one TTL for every resource class
max_age_of_blobs(rq) == BlobTTL

\* invalidation.manifest / invalidation.blob
max_age(rq) == IF rq.kind = "manifest" THEN ManifestTTL ELSE BlobTTL

\* the read's result: the Repository's answer, or Err when the store is unavailable
ReadOutcomes(repo, rq) ==
    {Repository_read(repo, storage_path(rq), max_age(rq)), [ok |-> FALSE]}

\* get_manifest revalidating every hit: the cached manifest is read, then fetched
\* again from upstream all the same
get_manifest_read_revalidating(r) ==
    /\ pc[r] = "read"
    /\ req[r].kind = "manifest"
    /\ calls' = Log(r, <<"read", storage_path(req[r]), max_age(req[r])>>)
    /\ \E rd \in ReadOutcomes(cache, req[r]) :
          io' = [io EXCEPT ![r].seen = cache[storage_path(req[r])],
                           ![r].read = IF rd.ok THEN "Ok" ELSE "Err"]
    /\ pc' = [pc EXCEPT ![r] = "auth"]
    /\ UNCHANGED <<world, cache, req, result, fanVars>>

(***************************************************************************)
(* get_manifest, lines 54-63: read the cache; Ok(stream) is drained and    *)
(* deserialized, each with `?`; Err falls through to upstream.             *)
(***************************************************************************)
get_manifest_read(r) ==
    /\ pc[r] = "read"
    /\ req[r].kind = "manifest"
    /\ calls' = Log(r, <<"read", storage_path(req[r]), max_age(req[r])>>)
    /\ \E rd \in ReadOutcomes(cache, req[r]), drained \in BOOLEAN :
          IF rd.ok
          THEN /\ io' = [io EXCEPT ![r].seen = cache[storage_path(req[r])],
                                   ![r].read = IF drained THEN "Ok" ELSE "StreamErr"]
               /\ pc' = [pc EXCEPT ![r] = "done"]
               /\ result' = [result EXCEPT ![r] =
                      IF ~drained THEN Err("Io")
                      ELSE IF from_slice(rd.body).ok
                           THEN OkManifest(from_slice(rd.body).manifest)
                           ELSE Err("Json")]
          ELSE /\ drained
               /\ io' = [io EXCEPT ![r].seen = cache[storage_path(req[r])],
                                   ![r].read = "Err"]
               /\ pc' = [pc EXCEPT ![r] = "auth"]
               /\ UNCHANGED result
    /\ UNCHANGED <<world, cache, req, fanVars>>

\* authenticate_with_upstream whose caller drops the result instead of `?`
authenticate_ignoring_failure(r) ==
    /\ pc[r] = "auth"
    /\ calls' = Log(r, <<"authenticate", pull_scope(req[r].image)>>)
    /\ \E ok \in BOOLEAN : io' = [io EXCEPT ![r].auth = IF ok THEN "Ok" ELSE "Err"]
    /\ pc' = [pc EXCEPT ![r] = "fetch"]
    /\ UNCHANGED <<world, cache, req, result, fanVars>>

(***************************************************************************)
(* authenticate_with_upstream, lines 28-31, called at lines 66 and 114.    *)
(***************************************************************************)
authenticate_with_upstream(r) ==
    /\ pc[r] = "auth"
    /\ calls' = Log(r, <<"authenticate", pull_scope(req[r].image)>>)
    /\ \E ok \in BOOLEAN :
          IF ok
          THEN /\ io' = [io EXCEPT ![r].auth = "Ok"]
               /\ pc' = [pc EXCEPT ![r] = "fetch"]
               /\ UNCHANGED result
          ELSE /\ io' = [io EXCEPT ![r].auth = "Err"]
               /\ pc' = [pc EXCEPT ![r] = "done"]
               /\ result' = [result EXCEPT ![r] = Err("Auth")]
    /\ UNCHANGED <<world, cache, req, fanVars>>

\* a single-flight get_manifest: a miss takes over the manifest that another request
\* for the same image and reference has fetched, without a fetch of its own
get_manifest_fetch_coalescing(r) ==
    /\ pc[r] = "fetch"
    /\ req[r].kind = "manifest"
    /\ \E o \in Reqs \ {r} :
          IF req[o] = req[r] /\ io[o].fetched # NoManifest
          THEN /\ io' = [io EXCEPT ![r].fetched = io[o].fetched]
               /\ pc' = [pc EXCEPT ![r] = "write"]
               /\ UNCHANGED <<calls, result>>
          ELSE /\ calls' = Log(r, <<"get_raw_manifest_and_metadata", req[r].image,
                                    to_string(req[r].reference)>>)
               /\ \/ /\ pc' = [pc EXCEPT ![r] = "done"]
                     /\ result' = [result EXCEPT ![r] = Err("Upstream")]
                     /\ UNCHANGED io
                  \/ \E m \in UpstreamManifests :
                        /\ io' = [io EXCEPT ![r].fetched = m]
                        /\ pc' = [pc EXCEPT ![r] = "write"]
                        /\ UNCHANGED result
    /\ UNCHANGED <<world, cache, req, fanVars>>

(***************************************************************************)
(* get_manifest, lines 67-68: fetch from upstream, `?` on failure.         *)
(***************************************************************************)
get_manifest_fetch(r) ==
    /\ pc[r] = "fetch"
    /\ req[r].kind = "manifest"
    /\ calls' = Log(r, <<"get_raw_manifest_and_metadata", req[r].image,
                         to_string(req[r].reference)>>)
    /\ \/ /\ pc' = [pc EXCEPT ![r] = "done"]
          /\ result' = [result EXCEPT ![r] = Err("Upstream")]
          /\ UNCHANGED io
       \/ \E m \in UpstreamManifests :
             /\ io' = [io EXCEPT ![r].fetched = m]
             /\ pc' = [pc EXCEPT ![r] = "write"]
             /\ UNCHANGED result
    /\ UNCHANGED <<world, cache, req, fanVars>>

\* get_manifest with `?` on the write-back: a write error fails the request
get_manifest_write_propagating(r) ==
    /\ pc[r] = "write"
    /\ LET body == to_vec(io[r].fetched)
           path == storage_path(req[r])
       IN  /\ calls' = Log(r, <<"write", path, try_into_i64(Len(body))>>)
           /\ \E ok \in BOOLEAN :
                 IF ok
                 THEN /\ cache' = Repository_write(cache, path, body)
                      /\ io' = [io EXCEPT ![r].write = "Ok"]
                      /\ result' = [result EXCEPT ![r] = OkManifest(io[r].fetched)]
                 ELSE /\ UNCHANGED cache
                      /\ io' = [io EXCEPT ![r].write = "Err"]
                      /\ result' = [result EXCEPT ![r] = Err("Write")]
    /\ pc' = [pc EXCEPT ![r] = "done"]
    /\ UNCHANGED <<world, req, fanVars>>

\* get_manifest handing the write-back to a detached task: the write is issued
\* and the manifest returned while the entry is not stored yet
get_manifest_write_detached(r) ==
    /\ pc[r] = "write"
    /\ calls' = Log(r, <<"write", storage_path(req[r]),
                         try_into_i64(Len(to_vec(io[r].fetched)))>>)
    /\ io' = [io EXCEPT ![r].write = "Ok"]
    /\ pc' = [pc EXCEPT ![r] = "done"]
    /\ result' = [result EXCEPT ![r] = OkManifest(io[r].fetched)]
    /\ UNCHANGED <<world, cache, req, fanVars>>

(***************************************************************************)
(* get_manifest, lines 70-75: serialize, write back, swallow a write       *)
(* error, return the manifest.                                             *)
(***************************************************************************)
get_manifest_write(r) ==
    /\ pc[r] = "write"
    /\ LET body == to_vec(io[r].fetched)
           path == storage_path(req[r])
       IN  /\ calls' = Log(r, <<"write", path, try_into_i64(Len(body))>>)
           /\ \E ok \in BOOLEAN :
                 IF ok
                 THEN /\ cache' = Repository_write(cache, path, body)
                      /\ io' = [io EXCEPT ![r].write = "Ok"]
                 ELSE /\ UNCHANGED cache
                      /\ io' = [io EXCEPT ![r].write = "Err"]
    /\ pc' = [pc EXCEPT ![r] = "done"]
    /\ result' = [result EXCEPT ![r] = OkManifest(io[r].fetched)]
    /\ UNCHANGED <<world, req, fanVars>>

\* manifest, lines 81-86: the response built from get_manifest's Ok value
manifest_response(m) ==
    [status |-> 200, content_type |-> m.media_type,
     docker_content_digest |-> m.digest, body |-> m.manifest]

(***************************************************************************)
(* The async_broadcast channel created at line 118.  queue holds           *)
(* <<message, waiters>> pairs, waiters being the number of receivers that  *)
(* have not taken the message yet; head_pos is the position of the first   *)
(* queued message in the whole broadcast; a Receiver is its position.      *)
(***************************************************************************)
\* async_broadcast::broadcast(cap): one Sender, one Receiver at position 0
broadcast_new ==
    [queue |-> <<>>, head_pos |-> 0, receiver_count |-> 1, sender_count |-> 1,
     is_closed |-> FALSE]

\* Receiver::clone: the clone stands where the original stands, and every message
\* the original has not taken gains a waiter
Receiver_clone(ch, pos) ==
    [ch EXCEPT !.receiver_count = @ + 1,
               !.queue = [i \in DOMAIN @ |->
                            IF i > pos - ch.head_pos
                            THEN <<@[i][1], @[i][2] + 1>> ELSE @[i]]]

\* a channel switched to overflow mode
OverflowOn == TRUE

\* the overflow mode of the channel: off unless set_overflow(true) is called, which
\* blob never does
Overflow == FALSE

\* a channel without a capacity: a message is queued however many are waiting
try_broadcast_unbounded(ch, msg) ==
    IF ch.is_closed THEN [res |-> "Closed", ch |-> ch]
    ELSE IF ch.receiver_count = 0 THEN [res |-> "Inactive", ch |-> ch]
    ELSE [res |-> "Ok",
          ch |-> [ch EXCEPT !.queue = Append(@, <<msg, ch.receiver_count>>)]]

\* Sender::try_broadcast: what one poll of the send future does.  Closed: the
\* message is refused for good.  Full: the future stays pending (with overflow on,
\* the oldest message is dropped instead).  Ok: the message is queued for every
\* receiver there is.
try_broadcast(ch, msg) ==
    IF ch.is_closed THEN [res |-> "Closed", ch |-> ch]
    ELSE IF ch.receiver_count = 0 THEN [res |-> "Inactive", ch |-> ch]
    ELSE IF Len(ch.queue) = Cap /\ ~Overflow THEN [res |-> "Full", ch |-> ch]
    ELSE [res |-> "Ok",
          ch |-> IF Len(ch.queue) = Cap
                 THEN [ch EXCEPT !.queue = Append(Tail(@), <<msg, ch.receiver_count>>),
                                 !.head_pos = @ + 1]
                 ELSE [ch EXCEPT !.queue = Append(@, <<msg, ch.receiver_count>>)]]

\* Inner::try_recv_at, first lines: a receiver the queue's head has overtaken
\* (Overflowed) resumes at the head
resync(ch, pos) == IF pos < ch.head_pos THEN ch.head_pos ELSE pos

\* whether a receiver at pos has a message to take
has_message(ch, pos) == resync(ch, pos) - ch.head_pos < Len(ch.queue)

\* the message a receiver at pos takes next
message_at(ch, pos) == ch.queue[resync(ch, pos) - ch.head_pos + 1][1]

\* Inner::try_recv_at on a message: one waiter less, and the message leaves the queue
\* with its last waiter
take(ch, pos) ==
    LET i == resync(ch, pos) - ch.head_pos + 1
        last_waiter == ch.queue[i][2] = 1
    IN  IF last_waiter
        THEN [ch EXCEPT !.queue = Tail(@), !.head_pos = @ + 1]
        ELSE [ch EXCEPT !.queue[i] = <<@[1], @[2] - 1>>]

RECURSIVE drain(_, _)
\* the loop of Receiver::drop: take every message left for this receiver
drain(ch, pos) ==
    IF has_message(ch, pos) THEN drain(take(ch, pos), resync(ch, pos) + 1) ELSE ch

\* a drop that cancels the whole broadcast: any receiver leaving closes the channel
Receiver_drop_closing(ch, pos) ==
    [drain(ch, pos) EXCEPT !.receiver_count = @ - 1, !.is_closed = TRUE]

\* Receiver::drop: drain, leave, and close the channel with the last receiver
Receiver_drop(ch, pos) ==
    LET d == drain(ch, pos)
    IN  [d EXCEPT !.receiver_count = @ - 1,
                  !.is_closed = @ \/ d.receiver_count = 1]

\* a Sender whose drop leaves the channel open
Sender_drop_keeping_open(ch) == [ch EXCEPT !.sender_count = @ - 1]

\* Sender::drop: the channel closes with its last sender
Sender_drop(ch) ==
    [ch EXCEPT !.sender_count = @ - 1, !.is_closed = @ \/ ch.sender_count = 1]

\* blob without the digest guard
blob_check_unguarded(r) ==
    /\ pc[r] = "check"
    /\ pc' = [pc EXCEPT ![r] = "read"]
    /\ UNCHANGED <<world, cache, req, result, calls, io, fanVars>>

(***************************************************************************)
(* blob, lines 102-104: the digest guard.                                  *)
(***************************************************************************)
blob_check(r) ==
    /\ pc[r] = "check"
    /\ IF ~starts_with(req[r].digest, Sha256Prefix)
       THEN /\ pc' = [pc EXCEPT ![r] = "done"]
            /\ result' = [result EXCEPT ![r] = Err("InvalidDigest")]
       ELSE /\ pc' = [pc EXCEPT ![r] = "read"]
            /\ UNCHANGED result
    /\ UNCHANGED <<world, cache, req, calls, io, fanVars>>

(***************************************************************************)
(* blob, lines 106-111: read the cache; Ok(stream) is the response.        *)
(***************************************************************************)
blob_read(r) ==
    /\ pc[r] = "read"
    /\ req[r].kind = "blob"
    /\ calls' = Log(r, <<"read", storage_path(req[r]), max_age(req[r])>>)
    /\ \E rd \in ReadOutcomes(cache, req[r]) :
          IF rd.ok
          THEN /\ io' = [io EXCEPT ![r].seen = cache[storage_path(req[r])],
                                   ![r].read = "Ok"]
               /\ pc' = [pc EXCEPT ![r] = "done"]
               /\ result' = [result EXCEPT ![r] = OkStreaming("cache", rd.body)]
          ELSE /\ io' = [io EXCEPT ![r].seen = cache[storage_path(req[r])],
                                   ![r].read = "Err"]
               /\ pc' = [pc EXCEPT ![r] = "auth"]
               /\ UNCHANGED result
    /\ UNCHANGED <<world, cache, req, fanVars>>

\* blob asking upstream once per consumer: one response for the client, another
\* for the cache writer
blob_fetch_per_consumer(r) ==
    /\ pc[r] = "fetch"
    /\ req[r].kind = "blob"
    /\ pc' = [pc EXCEPT ![r] = "done"]
    /\ \/ /\ calls' = Log(r, <<"get_blob_response", req[r].image, req[r].digest>>)
          /\ result' = [result EXCEPT ![r] = Err("Upstream")]
          /\ UNCHANGED fanVars
       \/ \E size \in world.sizes :
             /\ calls' = [calls EXCEPT ![r] = @ \o
                    << <<"get_blob_response", req[r].image, req[r].digest>>,
                       <<"get_blob_response", req[r].image, req[r].digest>>,
                       <<"broadcast", Cap>>, <<"spawn", "producer">>,
                       <<"spawn", "writer">> >>]
             /\ chan' = [chan EXCEPT ![r] = Receiver_clone(broadcast_new, 0)]
             /\ producer' = [producer EXCEPT ![r] = [pc |-> "next", chunk |-> <<>>]]
             /\ rx' = [rx EXCEPT ![r] = [c \in Consumers |->
                                            [state |-> "live", pos |-> 0]]]
             /\ wtask' = [wtask EXCEPT ![r] =
                            [pc |-> "spawned", len |-> unwrap_or_default(size)]]
             /\ stream' = [stream EXCEPT ![r].size = size]
             /\ result' = [result EXCEPT ![r] = OkStreaming("rx", <<>>)]
             /\ UNCHANGED <<obs, lateReads>>
    /\ UNCHANGED <<world, cache, req, io>>

\* blob setting up the channel and spawning its tasks before it looks at the
\* result of the blob request
blob_fetch_spawning_first(r) ==
    /\ pc[r] = "fetch"
    /\ req[r].kind = "blob"
    /\ pc' = [pc EXCEPT ![r] = "done"]
    /\ calls' = [calls EXCEPT ![r] = @ \o
           << <<"get_blob_response", req[r].image, req[r].digest>>,
              <<"broadcast", Cap>>, <<"spawn", "producer">>,
              <<"spawn", "writer">> >>]
    /\ chan' = [chan EXCEPT ![r] = Receiver_clone(broadcast_new, 0)]
    /\ producer' = [producer EXCEPT ![r] = [pc |-> "next", chunk |-> <<>>]]
    /\ rx' = [rx EXCEPT ![r] = [c \in Consumers |-> [state |-> "live", pos |-> 0]]]
    /\ \E size \in world.sizes :
          /\ wtask' = [wtask EXCEPT ![r] =
                         [pc |-> "spawned", len |-> unwrap_or_default(size)]]
          /\ stream' = [stream EXCEPT ![r].size = size]
    /\ \E ok \in BOOLEAN :
          result' = [result EXCEPT ![r] =
                        IF ok THEN OkStreaming("rx", <<>>) ELSE Err("Upstream")]
    /\ UNCHANGED <<world, cache, req, io, obs, lateReads>>

(***************************************************************************)
(* blob, lines 115-146: request the blob, `?` on failure; then, without    *)
(* suspending, create the channel, spawn the producer, clone the receiver, *)
(* spawn the cache writer and return the streaming response.               *)
(***************************************************************************)
blob_fetch(r) ==
    /\ pc[r] = "fetch"
    /\ req[r].kind = "blob"
    /\ pc' = [pc EXCEPT ![r] = "done"]
    /\ \/ /\ calls' = Log(r, <<"get_blob_response", req[r].image, req[r].digest>>)
          /\ result' = [result EXCEPT ![r] = Err("Upstream")]
          /\ UNCHANGED fanVars
       \/ \E size \in world.sizes :
             /\ calls' = [calls EXCEPT ![r] = @ \o
                    << <<"get_blob_response", req[r].image, req[r].digest>>,
                       <<"broadcast", Cap>>, <<"spawn", "producer">>,
                       <<"spawn", "writer">> >>]
             /\ chan' = [chan EXCEPT ![r] = Receiver_clone(broadcast_new, 0)]
             /\ producer' = [producer EXCEPT ![r] = [pc |-> "next", chunk |-> <<>>]]
             /\ rx' = [rx EXCEPT ![r] = [c \in Consumers |->
                                            [state |-> "live", pos |-> 0]]]
             /\ wtask' = [wtask EXCEPT ![r] =
                            [pc |-> "spawned", len |-> unwrap_or_default(size)]]
             /\ stream' = [stream EXCEPT ![r].size = size]
             /\ result' = [result EXCEPT ![r] = OkStreaming("rx", <<>>)]
             /\ UNCHANGED <<obs, lateReads>>
    /\ UNCHANGED <<world, cache, req, io>>

(***************************************************************************)
(* The producer task, lines 122-136.                                       *)
(***************************************************************************)
OkItem(n) == <<"Ok", n>>
ErrItem(n) == <<"Err", n>>
IsErr(item) == item[1] = "Err"
NumErrs(items) == Cardinality({i \in DOMAIN items : IsErr(items[i])})

\* what stream.next() may yield after items: Some(Ok(chunk)), Some(Err(e)), or None
NextItems(items, limit, errs) ==
    IF Len(items) >= limit THEN {}
    ELSE {OkItem(Len(items) + 1)} \cup
         (IF NumErrs(items) < errs THEN {ErrItem(Len(items) + 1)} ELSE {})

\* a producer that ends the loop on a read error without publishing it
producer_next_truncating(r) ==
    /\ producer[r].pc = "next"
    /\ lateReads' = [lateReads EXCEPT ![r] = IF chan[r].is_closed THEN @ + 1 ELSE @]
    /\ \/ \E item \in NextItems(stream[r].items, world.limit, world.errs) :
             /\ stream' = [stream EXCEPT ![r].items = Append(@, item)]
             /\ IF IsErr(item)
                THEN /\ producer' = [producer EXCEPT ![r] =
                                       [pc |-> "done", chunk |-> <<>>]]
                     /\ chan' = [chan EXCEPT ![r] = Sender_drop(@)]
                ELSE /\ producer' = [producer EXCEPT ![r] =
                                       [pc |-> "send", chunk |-> item]]
                     /\ UNCHANGED chan
       \/ /\ stream' = [stream EXCEPT ![r].ended = TRUE]
          /\ producer' = [producer EXCEPT ![r] = [pc |-> "done", chunk |-> <<>>]]
          /\ chan' = [chan EXCEPT ![r] = Sender_drop(@)]
    /\ UNCHANGED <<world, cache, req, pc, result, calls, io, rx, obs, wtask>>

\* line 123, stream.next().await: an item, which lines 124-130 pass on as it is
\* (Ok) or wrapped (Err); or None, which ends the loop and the task, dropping tx
producer_next(r) ==
    /\ producer[r].pc = "next"
    /\ lateReads' = [lateReads EXCEPT ![r] = IF chan[r].is_closed THEN @ + 1 ELSE @]
    /\ \/ \E item \in NextItems(stream[r].items, world.limit, world.errs) :
             /\ stream' = [stream EXCEPT ![r].items = Append(@, item)]
             /\ producer' = [producer EXCEPT ![r] = [pc |-> "send", chunk |-> item]]
             /\ UNCHANGED chan
       \/ /\ stream' = [stream EXCEPT ![r].ended = TRUE]
          /\ producer' = [producer EXCEPT ![r] = [pc |-> "done", chunk |-> <<>>]]
          /\ chan' = [chan EXCEPT ![r] = Sender_drop(@)]
    /\ UNCHANGED <<world, cache, req, pc, result, calls, io, rx, obs, wtask>>

\* a producer that logs the failed broadcast and goes on reading
producer_broadcast_persistent(r) ==
    /\ producer[r].pc = "send"
    /\ LET sent == try_broadcast(chan[r], producer[r].chunk)
       IN  /\ sent.res \in {"Ok", "Closed"}
           /\ chan' = [chan EXCEPT ![r] = sent.ch]
    /\ producer' = [producer EXCEPT ![r] = [pc |-> "next", chunk |-> <<>>]]
    /\ UNCHANGED <<world, cache, req, pc, result, calls, io, stream, rx, obs, wtask,
                   lateReads>>

\* lines 131-134, tx.broadcast(chunk).await: suspended while the channel is full;
\* Err (the channel is closed) breaks the loop and the task ends, dropping tx
producer_broadcast(r) ==
    /\ producer[r].pc = "send"
    /\ LET sent == try_broadcast(chan[r], producer[r].chunk)
       IN  /\ sent.res \in {"Ok", "Closed"}
           /\ IF sent.res = "Ok"
              THEN /\ chan' = [chan EXCEPT ![r] = sent.ch]
                   /\ producer' = [producer EXCEPT ![r] = [pc |-> "next", chunk |-> <<>>]]
              ELSE /\ chan' = [chan EXCEPT ![r] = Sender_drop(@)]
                   /\ producer' = [producer EXCEPT ![r] = [pc |-> "done", chunk |-> <<>>]]
    /\ UNCHANGED <<world, cache, req, pc, result, calls, io, stream, rx, obs, wtask,
                   lateReads>>

(***************************************************************************)
(* The cache-writer task, lines 140-144, and the two consumers.            *)
(***************************************************************************)
\* line 141: repo.write(path, rx2, len.try_into().unwrap_or(i64::MAX)) is called
writer_start(r) ==
    /\ wtask[r].pc = "spawned"
    /\ wtask' = [wtask EXCEPT ![r].pc = "writing"]
    /\ calls' = Log(r, <<"write", storage_path(req[r]), try_into_i64(wtask[r].len)>>)
    /\ UNCHANGED <<world, cache, req, pc, result, io, chan, stream, producer, rx,
                   obs, lateReads>>

Polling(r, c) ==
    /\ rx[r][c].state = "live"
    /\ c = "writer" => wtask[r].pc = "writing"

\* the bytes of the Ok chunks of items, in order
RECURSIVE Bytes(_)
Bytes(items) ==
    IF items = <<>> THEN <<>>
    ELSE (IF IsErr(Head(items)) THEN <<>> ELSE <<Head(items)[2]>>) \o Bytes(Tail(items))

\* a consumer polls its Receiver and gets the next message
consumer_recv(r, c) ==
    /\ Polling(r, c)
    /\ has_message(chan[r], rx[r][c].pos)
    /\ obs' = [obs EXCEPT ![r][c] = Append(@, message_at(chan[r], rx[r][c].pos))]
    /\ chan' = [chan EXCEPT ![r] = take(@, rx[r][c].pos)]
    /\ rx' = [rx EXCEPT ![r][c].pos = resync(chan[r], @) + 1]
    /\ UNCHANGED <<world, cache, req, pc, result, calls, io, stream, producer, wtask,
                   lateReads>>

\* a consumer polls its Receiver and gets None: nothing is queued for it and the
\* channel is closed.  The handle is dropped; for the writer, repo.write returns:
\* Err if the stream carried an error, else Ok (the entry is stored) or Err
consumer_end(r, c) ==
    /\ Polling(r, c)
    /\ ~has_message(chan[r], rx[r][c].pos)
    /\ chan[r].is_closed
    /\ rx' = [rx EXCEPT ![r][c].state = "ended"]
    /\ chan' = [chan EXCEPT ![r] = Receiver_drop(@, rx[r][c].pos)]
    /\ IF c = "writer"
       THEN /\ wtask' = [wtask EXCEPT ![r].pc = "done"]
            /\ \E ok \in BOOLEAN :
                  IF ok /\ NumErrs(obs[r][c]) = 0
                  THEN /\ io' = [io EXCEPT ![r].write = "Ok"]
                       /\ cache' = Repository_write(cache, storage_path(req[r]),
                                                    Bytes(obs[r][c]))
                  ELSE /\ io' = [io EXCEPT ![r].write = "Err"]
                       /\ UNCHANGED cache
       ELSE UNCHANGED <<wtask, io, cache>>
    /\ UNCHANGED <<world, req, pc, result, calls, stream, producer, obs, lateReads>>

\* a consumer drops its Receiver before the end of the stream: the client
\* disconnects (the response body is dropped), or repo.write fails and returns Err
consumer_drop(r, c) ==
    /\ Polling(r, c)
    /\ rx' = [rx EXCEPT ![r][c].state = "dropped"]
    /\ chan' = [chan EXCEPT ![r] = Receiver_drop(@, rx[r][c].pos)]
    /\ IF c = "writer"
       THEN /\ wtask' = [wtask EXCEPT ![r].pc = "done"]
            /\ io' = [io EXCEPT ![r].write = "Err"]
       ELSE UNCHANGED <<wtask, io>>
    /\ UNCHANGED <<world, cache, req, pc, result, calls, stream, producer, obs,
                   lateReads>>

(***************************************************************************)
(* Time passes: every entry of the Repository grows older, up to MaxAge.   *)
(***************************************************************************)
Tick ==
    /\ \E p \in AllPaths : cache[p].present /\ cache[p].age < MaxAge
    /\ cache' = [p \in AllPaths |->
                    IF cache[p].present /\ cache[p].age < MaxAge
                    THEN [cache[p] EXCEPT !.age = @ + 1]
                    ELSE cache[p]]
    /\ UNCHANGED <<world, req, pc, result, calls, io, fanVars>>

(***************************************************************************)
(* Specifications.  Spec: one request of any kind against any seeded       *)
(* cache, upstream streams of at most MaxChunks items of which MaxErrs may *)
(* be read errors and which declare no size.  SpecFanOut: one blob request *)
(* for image "a", upstream streams longer than the channel holds, of any   *)
(* declared size, none of whose reads fails.                               *)
(***************************************************************************)
Solo == {1}

BlobStep(r) ==
    \/ blob_check(r)
    \/ blob_read(r)
    \/ blob_fetch(r)
    \/ producer_next(r)
    \/ producer_broadcast(r)
    \/ writer_start(r)
    \/ \E c \in Consumers : consumer_recv(r, c)
    \/ \E c \in Consumers : consumer_end(r, c)
    \/ \E c \in Consumers : consumer_drop(r, c)

ManifestStep(r) ==
    \/ get_manifest_read(r)
    \/ get_manifest_fetch(r)
    \/ get_manifest_write(r)

Next ==
    \E r \in Solo :
        \/ Arrive(r)
        \/ authenticate_with_upstream(r)
        \/ ManifestStep(r)
        \/ BlobStep(r)

Spec == Init /\ [][Next]_vars

BlobA == [kind |-> "blob", image |-> <<"a">>, digest |-> Sha256Prefix \o <<"1">>]

InitFanOut ==
    /\ InitCommon
    /\ world = [requests |-> {rq \in BlobRequests : rq.image = <<"a">>},
                sizes |-> Sizes, limit |-> Cap + ExtraChunks,
                errs |-> 0]
    /\ cache \in {EmptyCache,
                   [EmptyCache EXCEPT ![storage_path(BlobA)] = Entry(<<7, 8>>, 0)]}

NextFanOut ==
    \E r \in Solo :
        \/ Arrive(r)
        \/ authenticate_with_upstream(r)
        \/ BlobStep(r)

SpecFanOut == InitFanOut /\ [][NextFanOut]_vars

(***************************************************************************)
(* SpecSeq: two manifest requests one after the other against a Repository *)
(* that starts empty and whose entries age: request 2 arrives once request *)
(* 1 has returned.                                                         *)
(***************************************************************************)
InitSeq ==
    /\ InitCommon
    /\ world = [requests |-> ManifestRequests, sizes |-> {None},
                limit |-> MaxChunks, errs |-> MaxErrs]
    /\ cache = EmptyCache

NextSeq ==
    \/ Arrive(1)
    \/ pc[1] = "done" /\ Arrive(2)
    \/ \E r \in Reqs : authenticate_with_upstream(r)
    \/ \E r \in Reqs : ManifestStep(r)
    \/ Tick

SpecSeq == InitSeq /\ [][NextSeq]_vars

(***************************************************************************)
(* SpecLive: one blob request for image "a" against an empty Repository,   *)
(* the upstream stream finite and longer than the channel holds, under     *)
(* fair scheduling: the runtime runs each spawned task that can take a     *)
(* step (the producer's read and publish, the start of the cache write),   *)
(* and a consumer that holds its handle takes what is there for it.  A     *)
(* consumer may drop its handle at any moment; nothing obliges it to.      *)
(***************************************************************************)
InitLive ==
    /\ InitCommon
    /\ world = [requests |-> {rq \in BlobRequests : rq.image = <<"a">>},
                sizes |-> {None}, limit |-> Cap + ExtraChunks,
                errs |-> 0]
    /\ cache = EmptyCache

Fairness ==
    \A r \in Solo :
        /\ WF_vars(producer_next(r))
        /\ WF_vars(producer_broadcast(r))
        /\ WF_vars(writer_start(r))
        /\ \A c \in Consumers : WF_vars(consumer_recv(r, c) \/ consumer_end(r, c))

SpecLive == InitLive /\ [][NextFanOut]_vars /\ Fairness

(***************************************************************************)
(* SpecPair: two requests in flight at once against an empty Repository,   *)
(* each any request for image "a", their steps interleaved in any order;   *)
(* upstream streams of at most PairChunks chunks, none of whose reads      *)
(* fails.                                                                  *)
(***************************************************************************)
ManifestA ==
    [kind |-> "manifest", image |-> <<"a">>,
     reference |-> [kind |-> "Tag", text |-> <<"v">>]]

InitPair ==
    /\ InitCommon
    /\ world = [requests |-> {rq \in ManifestRequests \cup BlobRequests :
                                 rq.image = <<"a">>},
                sizes |-> {None}, limit |-> PairChunks, errs |-> 0]
    /\ cache = EmptyCache

NextPair ==
    \E r \in Reqs :
        \/ Arrive(r)
        \/ authenticate_with_upstream(r)
        \/ ManifestStep(r)
        \/ BlobStep(r)

SpecPair == InitPair /\ [][NextPair]_vars

(***************************************************************************)
(* Claims.                                                                 *)
(***************************************************************************)
\* the names of the collaborator calls request r has made, in order
Ops(r) == [i \in DOMAIN calls[r] |-> calls[r][i][1]]

Called(r, op) == \E i \in DOMAIN calls[r] : calls[r][i][1] = op

\* no channel, no producer task, no cache-writer task exists for r
NoFanOut(r) ==
    /\ chan[r] = NoChan
    /\ producer[r] = NoProducer
    /\ wtask[r] = NoWtask
    /\ stream[r] = NoStream

IsPrefix(s, t) == Len(s) <= Len(t) /\ s = SubSeq(t, 1, Len(s))

\* C1: a blob request whose digest does not start with "sha256:" is answered
\* InvalidDigest and touches no collaborator: no Repository read or write, no
\* upstream authenticate or fetch, no channel, no spawned task.
C1_InvalidDigestTouchesNothing ==
    \A r \in Reqs :
        (req[r].kind = "blob" /\ ~starts_with(req[r].digest, Sha256Prefix)) =>
            /\ pc[r] \in {"check", "done"}
            /\ pc[r] = "done" => result[r] = Err("InvalidDigest")
            /\ calls[r] = <<>>
            /\ io[r] = NoIo
            /\ NoFanOut(r)

\* the md5 digest is rejected although the Repository holds a fresh entry at its path
C1_Witness ==
    \E r \in Reqs :
        /\ req[r].kind = "blob"
        /\ req[r].digest = <<"m", "d", "5", ":", "1">>
        /\ result[r] = Err("InvalidDigest")
        /\ Fresh(cache[storage_path(req[r])], BlobTTL)

\* C2: a cache hit is answered from the cached content alone: get_manifest returns
\* the manifest whose record the entry holds, blob returns the cached stream, and
\* the request's only collaborator call is the one Repository read.
C2_HitAnsweredFromCache ==
    \A r \in Reqs :
        LET e == cache[storage_path(req[r])]
        IN  (/\ req[r].kind \in {"manifest", "blob"}
             /\ io[r].read = "Ok"
             /\ req[r].kind = "manifest" => WellFormed(io[r].seen.body)) =>
                /\ Fresh(io[r].seen, max_age(req[r]))
                /\ e = io[r].seen
                /\ pc[r] = "done"
                /\ result[r].status = "Ok"
                /\ req[r].kind = "manifest" =>
                       /\ to_vec(result[r].manifest) = e.body
                       /\ result[r] = OkManifest(result[r].manifest)
                /\ req[r].kind = "blob" => result[r] = OkStreaming("cache", e.body)
                /\ Ops(r) = <<"read">>
                /\ io[r].auth = "none" /\ io[r].write = "none"
                /\ NoFanOut(r)

\* a manifest with a digest is served from a fresh entry
C2_Witness ==
    \E r \in Reqs :
        /\ req[r].kind = "manifest"
        /\ io[r].read = "Ok"
        /\ result[r].status = "Ok"
        /\ result[r].manifest.digest # None
        /\ cache[storage_path(req[r])].age = ManifestTTL

\* C3 as the spec states it: whatever fails on the cache side of get_manifest (a
\* miss, an error while draining the cached stream, a record that does not
\* deserialize) falls through to upstream and never reaches the client as an error.
C3_CacheFailureFallsThrough ==
    \A r \in Reqs :
        (/\ req[r].kind = "manifest"
         /\ pc[r] = "done"
         /\ \/ io[r].read \in {"Err", "StreamErr"}
            \/ io[r].read = "Ok" /\ ~WellFormed(io[r].seen.body)) =>
            /\ Called(r, "authenticate")
            /\ result[r].error \notin {"Io", "Json"}

\* the messages the producer has got into the channel so far, while a consumer lives
Published(r) ==
    IF producer[r].pc = "send"
    THEN SubSeq(stream[r].items, 1, Len(stream[r].items) - 1)
    ELSE stream[r].items

\* C4: in a fan-out where no consumer is dropped, each consumer has observed a
\* prefix of the upstream sequence at every moment (nothing lost, duplicated or
\* reordered), and a consumer whose stream has ended has observed all of it.
C4_FanOutFifo ==
    \A r \in Reqs :
        (\A c \in Consumers : rx[r][c].state \in {"live", "ended"}) =>
            \A c \in Consumers :
                /\ IsPrefix(obs[r][c], Published(r))
                /\ rx[r][c].pos = Len(obs[r][c])
                /\ rx[r][c].state = "ended" =>
                       stream[r].ended /\ obs[r][c] = stream[r].items

\* both consumers have seen to its end a stream longer than the channel holds
C4_Witness ==
    \E r \in Reqs :
        /\ \A c \in Consumers :
              rx[r][c].state = "ended" /\ obs[r][c] = stream[r].items
        /\ Len(stream[r].items) > Cap

\* C5: once the client's handle is dropped, the cache write goes on: the channel
\* stays open until the upstream stream ends, the producer stops only at that end,
\* and the writer observes a prefix of the upstream sequence, all of it by the time
\* its stream ends; a write that then succeeds stores the whole blob.
C5_ClientDropLeavesWriter ==
    \A r \in Reqs :
        rx[r]["client"].state = "dropped" =>
            /\ IsPrefix(obs[r]["writer"], Published(r))
            /\ rx[r]["writer"].state = "live" =>
                   /\ chan[r].is_closed => stream[r].ended
                   /\ producer[r].pc = "done" => stream[r].ended
            /\ rx[r]["writer"].state = "ended" =>
                   stream[r].ended /\ obs[r]["writer"] = stream[r].items
            /\ io[r].write = "Ok" =>
                   cache[storage_path(req[r])] = Entry(Bytes(stream[r].items), 0)

\* the client left mid-stream and the writer stored a blob longer than the channel
C5_Witness ==
    \E r \in Reqs :
        /\ rx[r]["client"].state = "dropped"
        /\ obs[r]["client"] # <<>>
        /\ Len(obs[r]["client"]) < Len(stream[r].items)
        /\ rx[r]["writer"].state = "ended"
        /\ io[r].write = "Ok"
        /\ Len(cache[storage_path(req[r])].body) > Cap

\* C6: a failing cache write changes nothing the client observes.  get_manifest
\* returns Ok with the fetched manifest whatever the write returned; the blob
\* response is the Ok stream, on which the client observes a prefix of the upstream
\* sequence and, by the end of its stream, all of it, whatever the writer did.
C6_WriteFailureInvisible ==
    \A r \in Reqs :
        /\ (req[r].kind = "manifest" /\ io[r].write # "none") =>
               /\ pc[r] = "done"
               /\ io[r].fetched \in UpstreamManifests
               /\ result[r] = OkManifest(io[r].fetched)
        /\ (req[r].kind = "blob" /\ Called(r, "broadcast")) =>
               /\ result[r] = OkStreaming("rx", <<>>)
               /\ rx[r]["client"].state = "ended" =>
                      stream[r].ended /\ obs[r]["client"] = stream[r].items
               /\ rx[r]["client"].state \in {"live", "ended"} =>
                      IsPrefix(obs[r]["client"], Published(r))

\* the writer failed early and the client still got the whole blob
C6_Witness ==
    \E r \in Reqs :
        /\ io[r].write = "Err"
        /\ rx[r]["writer"].state = "dropped"
        /\ Len(obs[r]["writer"]) < Len(obs[r]["client"])
        /\ rx[r]["client"].state = "ended"
        /\ obs[r]["client"] = stream[r].items
        /\ NumErrs(stream[r].items) = 0
        /\ result[r].status = "Ok"

\* C7: once both consumer handles are dropped before the upstream stream ends, the
\* channel is closed and empty, the producer completes at most one more upstream
\* read (the one in flight), and after that read it never reads again: its publish
\* fails and the task ends.
C7_ProducerStopsWithoutConsumers ==
    \A r \in Reqs :
        /\ lateReads[r] <= 1
        /\ lateReads[r] = 1 => producer[r].pc \in {"send", "done"}
        /\ (\A c \in Consumers : rx[r][c].state = "dropped") =>
               /\ chan[r].is_closed
               /\ chan[r].queue = <<>>
               /\ producer[r].pc = "send" =>
                      try_broadcast(chan[r], producer[r].chunk).res = "Closed"
               /\ (producer[r].pc = "next" /\ ~stream[r].ended) => lateReads[r] = 0

\* both consumers left without taking anything while the producer was suspended on
\* the full channel, and the producer ended without another read
C7_Witness ==
    \E r \in Reqs :
        /\ \A c \in Consumers : rx[r][c].state = "dropped" /\ obs[r][c] = <<>>
        /\ Len(stream[r].items) = Cap + 1
        /\ producer[r].pc = "done"
        /\ ~stream[r].ended
        /\ lateReads[r] = 0

IsFetch(op) == op \in {"get_raw_manifest_and_metadata", "get_blob_response"}

\* C8: every upstream fetch comes after a successful authenticate for the scope
\* repository:{image}:pull; every cache miss authenticates next; and a failed
\* authenticate ends the request with the auth error at once: one authenticate
\* call, no fetch, no write, no channel, no task, the cache as it was.
C8_AuthenticateFirst ==
    \A r \in Reqs :
        /\ \A j \in DOMAIN calls[r] :
              /\ calls[r][j][1] = "authenticate" =>
                     calls[r][j][2] = pull_scope(req[r].image)
              /\ IsFetch(calls[r][j][1]) =>
                     /\ io[r].auth = "Ok"
                     /\ j > 1
                     /\ calls[r][j - 1][1] = "authenticate"
        /\ (io[r].read = "Err" /\ pc[r] # "auth") => Ops(r)[2] = "authenticate"
        /\ io[r].auth = "Err" =>
               /\ pc[r] = "done"
               /\ result[r] = Err("Auth")
               /\ Ops(r) = <<"read", "authenticate">>
               /\ io[r].write = "none"
               /\ NoFanOut(r)
               /\ cache[storage_path(req[r])] = io[r].seen

\* a blob request of image l/b ends with the auth error
C8_Witness ==
    \E r \in Reqs :
        /\ req[r].kind = "blob"
        /\ req[r].image = <<"l", "/", "b">>
        /\ io[r].auth = "Err"
        /\ result[r] = Err("Auth")

\* C9: no silent truncation.  What a consumer has observed is a prefix of what the
\* upstream stream yielded, error items included, so an error item is observed
\* after every chunk produced before it; whatever the producer has published and a
\* live consumer has not taken yet is queued for that consumer; and a consumer's
\* stream ends only when the upstream stream has ended, with every error item of
\* the upstream stream observed.
C9_NoSilentTruncation ==
    \A r \in Reqs : \A c \in Consumers :
        /\ \A i \in DOMAIN obs[r][c] :
              IsErr(obs[r][c][i]) =>
                  SubSeq(obs[r][c], 1, i) = SubSeq(stream[r].items, 1, i)
        /\ rx[r][c].state = "live" =>
               \A k \in (Len(obs[r][c]) + 1) .. Len(Published(r)) :
                   /\ k - chan[r].head_pos \in DOMAIN chan[r].queue
                   /\ chan[r].queue[k - chan[r].head_pos][1] = stream[r].items[k]
        /\ rx[r][c].state = "ended" =>
               /\ stream[r].ended
               /\ NumErrs(obs[r][c]) = NumErrs(stream[r].items)
               /\ Len(obs[r][c]) = Len(stream[r].items)

\* both consumers saw chunk 1, then the read error, to the end of the stream, and
\* the cache write failed
C9_Witness ==
    \E r \in Reqs :
        /\ \A c \in Consumers :
              rx[r][c].state = "ended" /\ obs[r][c] = stream[r].items
        /\ Len(stream[r].items) >= 2
        /\ stream[r].items[1] = OkItem(1)
        /\ stream[r].items[2] = ErrItem(2)
        /\ io[r].write = "Err"

\* the TTL of a resource class
ClassTTL(kind) == IF kind = "manifest" THEN ManifestTTL ELSE BlobTTL

\* request r read its path while the entry there was older than its class's TTL
ReadStale(r) ==
    /\ io[r].read # "none"
    /\ io[r].seen.present
    /\ io[r].seen.age > ClassTTL(req[r].kind)

ManifestMissOps == <<"read", "authenticate", "get_raw_manifest_and_metadata", "write">>
BlobMissOps ==
    <<"read", "authenticate", "get_blob_response", "broadcast", "spawn", "spawn",
      "write">>

\* C10: an entry older than the TTL of the request's resource class is ignored.
\* The read is a miss, nothing is answered from the cache, the request goes on to
\* authenticate, fetch and write back in that order, the write-back goes to the
\* path that was read, an Ok answer carries the upstream content, and a write that
\* succeeds replaces the stale entry by that content.
C10_StaleEntryIgnored ==
    \A r \in Reqs :
        ReadStale(r) =>
            LET path == storage_path(req[r])
                miss == IF req[r].kind = "manifest" THEN ManifestMissOps ELSE BlobMissOps
            IN  /\ io[r].read = "Err"
                /\ result[r].from # "cache"
                /\ IsPrefix(Ops(r), miss)
                /\ calls[r][1][2] = path
                /\ pc[r] = "done" => Called(r, "authenticate")
                /\ Called(r, "write") => calls[r][Len(miss)][2] = path
                /\ result[r].status = "Ok" =>
                       IF req[r].kind = "manifest"
                       THEN /\ io[r].fetched \in UpstreamManifests
                            /\ result[r] = OkManifest(io[r].fetched)
                            /\ Ops(r) = miss
                       ELSE /\ result[r] = OkStreaming("rx", <<>>)
                            /\ rx[r]["client"].state = "ended" =>
                                   obs[r]["client"] = stream[r].items
                /\ io[r].write = "Ok" =>
                       cache[path] =
                           Entry(IF req[r].kind = "manifest"
                                 THEN to_vec(io[r].fetched)
                                 ELSE Bytes(stream[r].items), 0)

\* a manifest entry too old for manifests, though not for blobs, is replaced by the
\* different manifest fetched from upstream
C10_Witness ==
    \E r \in Reqs :
        /\ req[r].kind = "manifest"
        /\ io[r].seen.present
        /\ io[r].seen.age > ManifestTTL
        /\ io[r].seen.age <= BlobTTL
        /\ WellFormed(io[r].seen.body)
        /\ io[r].seen.body # to_vec(io[r].fetched)
        /\ result[r] = OkManifest(io[r].fetched)
        /\ cache[storage_path(req[r])] = Entry(to_vec(io[r].fetched), 0)

\* C11: round trip through the cache.  When a manifest request has fetched a
\* manifest and written it back, and another request for the same image and
\* reference reads the entry, that read found the entry within the manifest TTL,
\* the entry holds the serialized original, and the manifest deserialized from it
\* and returned is equal to the original: same bytes, media type, optional digest.
C11_RoundTrip ==
    \A a \in Reqs : \A b \in Reqs \ {a} :
        (/\ req[a].kind = "manifest"
         /\ req[b] = req[a]
         /\ io[a].write = "Ok"
         /\ io[b].read = "Ok") =>
            LET original == io[a].fetched
                got == result[b].manifest
            IN  /\ Fresh(io[b].seen, ManifestTTL)
                /\ io[b].seen.body = to_vec(original)
                /\ from_slice(io[b].seen.body) = [ok |-> TRUE, manifest |-> original]
                /\ result[b] = OkManifest(original)
                /\ got.manifest = original.manifest
                /\ got.media_type = original.media_type
                /\ got.digest = original.digest

\* a manifest with a digest comes back equal from an entry as old as the TTL allows
C11_Witness ==
    /\ req[2] = req[1]
    /\ io[1].write = "Ok"
    /\ io[1].fetched.digest # None
    /\ io[2].read = "Ok"
    /\ io[2].seen.age = ManifestTTL
    /\ result[2] = OkManifest(io[1].fetched)

\* C12: the write-back is complete when the first response is returned.  Starting
\* from an empty cache, once request 1 has returned after a write-back that
\* succeeded, the entry is stored before any later request arrives; a later
\* identical request finds it at its read, and when the Repository serves that read
\* the request is answered with the same response and makes no upstream call.
C12_WriteBackBeforeResponse ==
    (req[1].kind = "manifest" /\ io[1].write = "Ok") =>
        LET path == storage_path(req[1])
        IN  /\ pc[1] = "done"
            /\ result[1] = OkManifest(io[1].fetched)
            /\ pc[2] = "idle" =>
                   /\ cache[path].present
                   /\ cache[path].body = to_vec(io[1].fetched)
            /\ (req[2] = req[1] /\ io[2].read # "none") =>
                   /\ io[2].seen.present
                   /\ io[2].seen.body = to_vec(io[1].fetched)
            /\ (req[2] = req[1] /\ io[2].read = "Ok") =>
                   /\ pc[2] = "done"
                   /\ manifest_response(result[2].manifest) =
                          manifest_response(result[1].manifest)
                   /\ Ops(2) = <<"read">>
                   /\ io[2].auth = "none"
                   /\ io[2].write = "none"

\* the identical request that follows at once is answered from the entry just written
C12_Witness ==
    /\ io[1].write = "Ok"
    /\ req[2] = req[1]
    /\ io[2].read = "Ok"
    /\ io[2].seen.age = 0
    /\ result[2] = result[1]
    /\ result[2].status = "Ok"
    /\ Ops(2) = <<"read">>

\* the fan-out of r is over: the producer task has ended and no consumer holds a
\* live handle (each has reached the end of its stream or was dropped)
FanOutOver(r) ==
    /\ producer[r].pc = "done"
    /\ \A c \in Consumers : rx[r][c].state \in {"ended", "dropped"}

\* C13: the fan-out never deadlocks.  Under fair scheduling, with a finite upstream
\* stream and consumers that keep consuming or are dropped, every fan-out that was
\* started comes to its end: the producer task terminates and every consumer
\* that is not dropped reaches the end of its stream, whichever consumer finishes
\* or drops first and at whatever relative rates.
C13_FanOutTerminates ==
    \A r \in Solo : (producer[r].pc # "none") ~> FanOutOver(r)

\* the client left on the full channel, holding every queued message back; the
\* writer then took the whole stream to its end and the producer ended
C13_Witness ==
    \E r \in Solo :
        /\ FanOutOver(r)
        /\ stream[r].ended
        /\ Len(stream[r].items) = Cap + ExtraChunks
        /\ rx[r]["client"].state = "dropped"
        /\ obs[r]["client"] = <<>>
        /\ rx[r]["writer"].state = "ended"
        /\ obs[r]["writer"] = stream[r].items

\* the steps of handler r, from the arrival of its request to its return
HandlerStep(r) ==
    \/ Arrive(r)
    \/ blob_check(r)
    \/ blob_read(r)
    \/ get_manifest_read(r)
    \/ authenticate_with_upstream(r)
    \/ get_manifest_fetch(r)
    \/ blob_fetch(r)
    \/ get_manifest_write(r)

\* the upstream fetches made so far, over all requests
Fetches == {<<r, i>> \in Reqs \X (1 .. Len(BlobMissOps)) :
                i \in DOMAIN calls[r] /\ IsFetch(calls[r][i][1])}

\* C14: no coordination across requests.  A handler that has not returned can
\* always take its next step, whatever the other request is doing; a request that
\* missed makes its own authenticate, fetch and write-back, in that order, and its
\* client observes the content of its own fetch: the manifest it fetched, or a
\* prefix of its own upstream stream and all of it at the end of the stream.
C14_NoCoordination ==
    \A r \in Reqs :
        /\ pc[r] # "done" => ENABLED HandlerStep(r)
        /\ io[r].read = "Err" =>
               LET miss == IF req[r].kind = "manifest"
                           THEN ManifestMissOps ELSE BlobMissOps
               IN  /\ IsPrefix(Ops(r), miss)
                   /\ result[r].status = "Ok" =>
                          IF req[r].kind = "manifest"
                          THEN /\ Ops(r) = miss
                               /\ io[r].fetched \in UpstreamManifests
                               /\ result[r] = OkManifest(io[r].fetched)
                          ELSE /\ result[r] = OkStreaming("rx", <<>>)
                               /\ IsPrefix(obs[r]["client"], stream[r].items)
                               /\ rx[r]["client"].state = "ended" =>
                                      obs[r]["client"] = stream[r].items

\* two requests for the same blob both found the Repository empty, each fetched the
\* blob, and each client got its own stream: one chunk for request 1, none for 2
C14_Witness ==
    /\ req[1] = BlobA
    /\ req[2] = BlobA
    /\ \A r \in Reqs :
          /\ io[r].seen = Absent
          /\ io[r].read = "Err"
          /\ io[r].auth = "Ok"
          /\ rx[r]["client"].state = "ended"
          /\ obs[r]["client"] = stream[r].items
          /\ io[r].write = "Ok"
    /\ Cardinality(Fetches) = 2
    /\ stream[1].items = <<OkItem(1)>>
    /\ stream[2].items = <<>>

\* C15 as the spec states it: an upstream read error is the terminal item of the
\* broadcast.  An error item is the last item the producer has read, and the
\* upstream stream is not polled to its end after it: once the producer has
\* published an error item it reads nothing more and publishes nothing more.
C15_ErrorItemIsTerminal ==
    \A r \in Reqs : \A i \in DOMAIN stream[r].items :
        IsErr(stream[r].items[i]) =>
            /\ i = Len(stream[r].items)
            /\ ~stream[r].ended

\* how many of r's collaborator calls are call
Count(r, call) == Cardinality({i \in DOMAIN calls[r] : calls[r][i] = call})

\* C16: one upstream request, one producer, two consumer handles.  A blob request
\* asks upstream for the blob at most once and creates at most one channel, one
\* producer task and one writer task; that channel never has more than one Sender
\* (the producer's, while the task runs) nor more than two Receivers (the live
\* handles); each item read from the upstream stream is read once, is queued as
\* the one message at its position, and reaches each consumer once, in order.
C16_OneFetchOneProducer ==
    \A r \in Reqs :
        req[r].kind = "blob" =>
            /\ Count(r, <<"get_blob_response", req[r].image, req[r].digest>>) <= 1
            /\ Count(r, <<"broadcast", Cap>>) <= 1
            /\ Count(r, <<"spawn", "producer">>) <= 1
            /\ Count(r, <<"spawn", "writer">>) <= 1
            /\ Cardinality({i \in DOMAIN calls[r] : IsFetch(calls[r][i][1])}) <= 1
            /\ Called(r, "broadcast") =>
                   /\ IsPrefix(BlobMissOps, Ops(r)) \/ IsPrefix(Ops(r), BlobMissOps)
                   /\ Count(r, <<"get_blob_response", req[r].image, req[r].digest>>) = 1
                   /\ Count(r, <<"spawn", "producer">>) = 1
                   /\ Count(r, <<"spawn", "writer">>) = 1
            /\ chan[r].sender_count =
                   (IF producer[r].pc \in {"next", "send"} THEN 1 ELSE 0)
            /\ chan[r].receiver_count =
                   Cardinality({c \in Consumers : rx[r][c].state = "live"})
            /\ \A i \in DOMAIN stream[r].items : stream[r].items[i][2] = i
            /\ \A k \in DOMAIN chan[r].queue :
                   /\ chan[r].queue[k][1] = stream[r].items[chan[r].head_pos + k]
                   /\ chan[r].queue[k][2] \in 1 .. 2
            /\ \A c \in Consumers : IsPrefix(obs[r][c], stream[r].items)

\* one fetch fed a stream of MaxChunks chunks to the client and to the cache
C16_Witness ==
    \E r \in Reqs :
        /\ Ops(r) = BlobMissOps
        /\ stream[r].ended
        /\ stream[r].items = [i \in 1 .. MaxChunks |-> OkItem(i)]
        /\ obs[r]["client"] = stream[r].items
        /\ obs[r]["writer"] = stream[r].items
        /\ cache[storage_path(req[r])] = Entry(Bytes(stream[r].items), 0)
        /\ chan[r].sender_count = 0
        /\ chan[r].receiver_count = 0

\* C17 as the spec states it: the length passed to Repository::write for a blob is
\* the length the upstream response declares when it declares one, and the
\* sentinel, the largest 64-bit signed integer, when it declares none.
C17_DeclaredLengthOrSentinel ==
    \A r \in Reqs : \A i \in DOMAIN calls[r] :
        (req[r].kind = "blob" /\ calls[r][i][1] = "write") =>
            calls[r][i][3] =
                (IF stream[r].size = None THEN I64_MAX ELSE stream[r].size[1])

\* the consumers of r that hold a live handle
Live(r) == {c \in Consumers : rx[r][c].state = "live"}

\* C18: the channel holds at most Cap messages.  In every state of a fan-out the
\* queue is no longer than Cap; what the producer has published is at most Cap
\* ahead of every live consumer, and what it has read at most one chunk more (the
\* one it holds while suspended); a publish on the full channel does not go
\* through; and two live consumers are never more than Cap messages apart.
C18_BoundedBuffer ==
    \A r \in Reqs :
        /\ Len(chan[r].queue) <= Cap
        /\ \A c \in Live(r) :
               /\ chan[r].head_pos <= rx[r][c].pos
               /\ Len(Published(r)) - rx[r][c].pos <= Cap
               /\ Len(stream[r].items) - rx[r][c].pos <= Cap + 1
        /\ \A c \in Live(r) : \A d \in Live(r) : rx[r][c].pos - rx[r][d].pos <= Cap
        /\ (producer[r].pc = "send" /\ Len(chan[r].queue) = Cap /\ Live(r) # {}) =>
               /\ try_broadcast(chan[r], producer[r].chunk).res = "Full"
               /\ ~ENABLED producer_broadcast(r)

\* the channel is full and the producer suspended with one more chunk in hand: the
\* writer has taken all Cap messages, the client none
C18_Witness ==
    \E r \in Reqs :
        /\ Len(chan[r].queue) = Cap
        /\ producer[r].pc = "send"
        /\ Len(stream[r].items) = Cap + 1
        /\ rx[r]["client"] = [state |-> "live", pos |-> 0]
        /\ rx[r]["writer"] = [state |-> "live", pos |-> Cap]
        /\ ~ENABLED producer_broadcast(r)

\* {image}/manifests/{reference} and {image}/blobs/{digest}, written out
KeyOf(rq) ==
    IF rq.kind = "manifest"
    THEN rq.image \o <<"/", "m", "a", "n", "i", "f", "e", "s", "t", "s", "/">>
                  \o rq.reference.text
    ELSE rq.image \o <<"/", "b", "l", "o", "b", "s", "/">> \o rq.digest

\* requests whose image names end in a path segment of the other kind, besides the
\* requests of the model
KeyedRequests ==
    LET images == Images \cup {<<"a">> \o Slash \o BlobsSeg,
                               <<"a">> \o Slash \o ManifestsSeg}
    IN  [kind : {"manifest"}, image : images, reference : References] \cup
        [kind : {"blob"}, image : images, digest : Digests]

\* C19: one key per request.  Every Repository read and write of a request carries
\* the same storage path, which is {image}/manifests/{reference} or
\* {image}/blobs/{digest} of the request's own fields; no different request has
\* that path; and with two requests in flight on a Repository that was
\* empty, an entry exists only under the path of a request whose own write
\* succeeded, so no request writes under another's key.
C19_OneKeyPerRequest ==
    /\ \A r \in Reqs :
           req[r].kind # "none" =>
               /\ storage_path(req[r]) = KeyOf(req[r])
               /\ \A other \in KeyedRequests :
                      storage_path(other) = KeyOf(req[r]) => other = req[r]
    /\ \A r \in Reqs : \A i \in DOMAIN calls[r] :
           calls[r][i][1] \in {"read", "write"} => calls[r][i][2] = KeyOf(req[r])
    /\ \A p \in AllPaths :
           cache[p].present =>
               \E r \in Reqs :
                   /\ req[r].kind # "none"
                   /\ KeyOf(req[r]) = p
                   /\ io[r].write = "Ok"

\* a manifest request by digest and a blob request for that digest each wrote its
\* own entry, and only those two entries exist
C19_Witness ==
    /\ req[1] = [kind |-> "manifest", image |-> <<"a">>,
                 reference |-> [kind |-> "Digest", text |-> Sha256Prefix \o <<"1">>]]
    /\ req[2] = BlobA
    /\ io[1].write = "Ok"
    /\ io[2].write = "Ok"
    /\ cache[KeyOf(req[1])] = Entry(to_vec(io[1].fetched), 0)
    /\ cache[KeyOf(req[2])] = Entry(Bytes(stream[2].items), 0)
    /\ stream[2].items # <<>>
    /\ \A p \in AllPaths \ {KeyOf(req[1]), KeyOf(req[2])} : cache[p] = Absent

\* the upstream fetch of r was made and r has returned without a manifest or a
\* response stream: the fetch failed
FetchFailed(r) ==
    /\ pc[r] = "done"
    /\ calls[r] # <<>>
    /\ IsFetch(calls[r][Len(calls[r])][1])

\* C20: a failed upstream fetch leaves no trace.  When the fetch that follows a
\* miss and a successful authenticate fails, the request returns the upstream
\* error, having made the read, the authenticate and the fetch and nothing else: no
\* Repository write, no channel, no producer or cache-writer task; and the entry
\* at its path is what the read saw.  No request returns the upstream error
\* otherwise.
C20_FetchFailureLeavesNoTrace ==
    \A r \in Reqs :
        /\ FetchFailed(r) <=> result[r] = Err("Upstream")
        /\ FetchFailed(r) =>
               /\ io[r].read = "Err"
               /\ io[r].auth = "Ok"
               /\ Ops(r) = <<"read", "authenticate",
                             IF req[r].kind = "manifest"
                             THEN "get_raw_manifest_and_metadata"
                             ELSE "get_blob_response">>
               /\ io[r].write = "none"
               /\ io[r].fetched = NoManifest
               /\ NoFanOut(r)
               /\ \A c \in Consumers : rx[r][c] = NoHandle
               /\ cache[storage_path(req[r])] = io[r].seen

\* the request for a blob whose entry is stale fails upstream, and the stale entry
\* stays
C20_Witness ==
    \E r \in Reqs :
        /\ req[r].kind = "blob"
        /\ result[r] = Err("Upstream")
        /\ io[r].seen.present
        /\ io[r].seen.age > BlobTTL
        /\ cache[storage_path(req[r])] = io[r].seen

====
